---- MODULE Spec2Model ----
(***************************************************************************)
(* The onchain-actions queue of foc-engine.js                               *)
(* (src/src/stores/useOnchainActions.ts): a zustand store that buffers      *)
(* actions, flushes them to an injected executor on a size trigger, on a    *)
(* debounce timer or on request, and re-queues a batch whose executor call  *)
(* rejected.                                                                *)
(*                                                                          *)
(* The store exists in two variants with the same methods: the module-level *)
(* store useOnchainActions and the stores built by                          *)
(* createOnchainActionsStore(config).  They differ in the catch block of    *)
(* forceBatchExecution (only the factory store calls onError) and in the    *)
(* initial executor.                                                        *)
(*                                                                          *)
(* JavaScript runs every handler to completion.  The only suspension point  *)
(* is the await on the executor's promise, so one action of the model is    *)
(* one handler (addAction, clearActions, a setter, forceBatchExecution up   *)
(* to its await, a timer callback) or the continuation of                   *)
(* forceBatchExecution after the promise settled.                           *)
(***************************************************************************)
EXTENDS Integers, Sequences, FiniteSets

\* ---------------------------------------------------------------- bounds
\* Actions are opaque Call objects; every addAction call of a behaviour adds
\* a fresh one, named 1, 2, ... in the order of the calls.
MaxActionId == 2
\* maxActions and batchSize range over 1..MaxSize.
MaxSize == 3
\* Date.now() ranges over 1..MaxTime.
MaxTime == 1
\* debounceMs ranges over {0, DebounceDelay}.
DebounceDelay == 1

VARIABLES
    variant,         \* "module": useOnchainActions, "factory": createOnchainActionsStore
    onError,         \* finalConfig.onError of a factory store: "undefined" or "defined"
    actions,         \* the queue
    maxActions,
    autoInvoke,
    batchSize,
    debounceMs,
    pendingInvoke,
    lastInvokeTime,
    debounceTimer,   \* the stored timer handle, 0 for undefined
    invokeActions,   \* the executor, "none" for undefined
    timers,          \* handles of the timers that are armed (setTimeout, not yet fired or cleared)
    inflight,        \* executor calls whose promise has not settled: [batch, exec]
    nextId,          \* name of the next action to be added
    step,            \* what the last handler did: its name, the batches it handed to the
                     \* executor and to onError, and the actions its overflow step dropped
    run              \* the run of consecutive addAction calls that began on an empty queue

vars == <<variant, onError, actions, maxActions, autoInvoke, batchSize, debounceMs,
          pendingInvoke, lastInvokeTime, debounceTimer, invokeActions, timers,
          inflight, nextId, step, run>>

Sizes == 1..MaxSize
Delays == {0, DebounceDelay}
Times == 1..MaxTime
Executors == {"default", "user"}
NoRun == [first |-> 0, pending0 |-> FALSE, submits |-> <<>>]

\* The store and its environment as one value, so that handlers compose
\* (addActions calls addAction, addAction calls forceBatchExecution).
Cur ==
    [actions |-> actions, maxActions |-> maxActions, autoInvoke |-> autoInvoke,
     batchSize |-> batchSize, debounceMs |-> debounceMs,
     pendingInvoke |-> pendingInvoke, lastInvokeTime |-> lastInvokeTime,
     debounceTimer |-> debounceTimer, invokeActions |-> invokeActions,
     timers |-> timers, inflight |-> inflight, nextId |-> nextId,
     submitted |-> <<>>, evicted |-> <<>>, errorCalls |-> <<>>, threw |-> FALSE]

\* Date.now(): the clock does not run backwards, and lastInvokeTime holds the
\* latest reading the store took.
DateNow == {t \in Times : t >= lastInvokeTime}

\* setTimeout returns a handle that differs from every armed timer's and from
\* the handle the store still holds.
NewTimer(live, held) ==
    CHOOSE h \in 1..(Cardinality(live) + 2) :
        /\ h \notin live \cup {held}
        /\ \A g \in 1..(h - 1) : g \in live \cup {held}

\* clearTimeout that cancels nothing.
ClearTimeoutIgnored(live, handle) == live

\* clearTimeout(handle) after the `if (state.debounceTimer)` test.
ClearTimeout(live, handle) == IF handle # 0 THEN live \ {handle} ELSE live

\* The guard of forceBatchExecution, without the test of pendingInvoke.
FlushBlockedIgnoringPending(s) ==
    \/ Len(s.actions) = 0
    \/ s.invokeActions = "none"

\* The guard of forceBatchExecution, without the test of the queue length.
FlushBlockedIgnoringEmpty(s) ==
    \/ s.pendingInvoke
    \/ s.invokeActions = "none"

\* The guard of forceBatchExecution.
FlushBlocked(s) ==
    \/ s.pendingInvoke
    \/ Len(s.actions) = 0
    \/ s.invokeActions = "none"

\* forceBatchExecution recording the time of every attempt, also of one the
\* guard turns away.
forceBatchExecutionStampsAttempt(s, t) ==
    IF FlushBlocked(s) THEN [s EXCEPT !.lastInvokeTime = t]
    ELSE [s EXCEPT
            !.pendingInvoke = TRUE,
            !.timers = ClearTimeout(@, s.debounceTimer),
            !.debounceTimer = 0,
            !.actions = <<>>,
            !.lastInvokeTime = t,
            !.inflight = Append(@, [batch |-> s.actions, exec |-> s.invokeActions]),
            !.submitted = Append(@, s.actions)]

\* forceBatchExecution up to its await: the executor is called before the
\* handler that called forceBatchExecution goes on.
forceBatchExecution(s, t) ==
    IF FlushBlocked(s) THEN s
    ELSE [s EXCEPT
            !.pendingInvoke = TRUE,
            !.timers = ClearTimeout(@, s.debounceTimer),
            !.debounceTimer = 0,
            !.actions = <<>>,
            !.lastInvokeTime = t,
            !.inflight = Append(@, [batch |-> s.actions, exec |-> s.invokeActions]),
            !.submitted = Append(@, s.actions)]

\* The overflow step keeping the oldest actions instead of the newest.
OverflowKeepOldest(updated, max) ==
    IF Len(updated) > max THEN SubSeq(updated, 1, max) ELSE updated

\* The overflow step dropping one action, the oldest, however long the queue.
OverflowDropsOne(updated, max) ==
    IF Len(updated) > max THEN Tail(updated) ELSE updated

\* updatedActions.slice(excess) when updatedActions is longer than maxActions.
Overflow(updated, max) ==
    IF Len(updated) > max
    THEN SubSeq(updated, (Len(updated) - max) + 1, Len(updated))
    ELSE updated

\* The test of the debounce branch of addAction.
DebounceBranch(state) == state.autoInvoke /\ state.debounceMs > 0

\* The test of the size trigger of addAction, without autoInvoke.
SizeTriggerIgnoringAutoInvoke(state, updated) == Len(updated) >= state.batchSize

\* The test of the size trigger of addAction.
SizeTrigger(state, updated) == state.autoInvoke /\ Len(updated) >= state.batchSize

\* addAction.  `state` is the snapshot get() returned at entry; the overflow
\* step tests and slices updatedActions, not the queue as it is by then.
addAction(state, action, t) ==
    LET updated == Append(state.actions, action)
        s1 == [state EXCEPT !.actions = updated, !.nextId = @ + 1]
        cleared == ClearTimeout(s1.timers, state.debounceTimer)
        timer == NewTimer(cleared, state.debounceTimer)
        s2 == IF SizeTrigger(state, updated) THEN forceBatchExecution(s1, t)
              ELSE IF DebounceBranch(state)
                   THEN [s1 EXCEPT !.timers = cleared \cup {timer},
                                   !.debounceTimer = timer]
                   ELSE s1
    IN  IF Len(updated) > state.maxActions
        THEN [s2 EXCEPT !.actions = Overflow(updated, state.maxActions),
                        !.evicted = @ \o SubSeq(updated, 1, Len(updated) - state.maxActions)]
        ELSE s2

\* addActions as one insert of n fresh actions: the triggers and the overflow
\* step run once, after the last append.
addActionsAtOnce(s, n, t) ==
    IF n = 0 THEN s
    ELSE LET first == [k \in 1..(n - 1) |-> (s.nextId + k) - 1]
         IN  addAction([s EXCEPT !.actions = @ \o first, !.nextId = @ + (n - 1)],
                       (s.nextId + n) - 1, t)

\* addActions: forEach over n fresh actions.
RECURSIVE addActions(_, _, _)
addActions(s, n, t) ==
    IF n = 0 THEN s ELSE addActions(addAction(s, s.nextId, t), n - 1, t)

\* clearActions forgetting the timer handle without clearTimeout.
clearActionsKeepsTimer(s) ==
    [s EXCEPT !.actions = <<>>, !.debounceTimer = 0]

\* clearActions abandoning the calls in flight as well.
clearActionsDropsInFlight(s) ==
    [s EXCEPT !.timers = ClearTimeout(@, s.debounceTimer),
              !.actions = <<>>,
              !.debounceTimer = 0,
              !.inflight = <<>>,
              !.pendingInvoke = FALSE]

\* clearActions dropping the oldest action only.
clearActionsOldest(s) ==
    [s EXCEPT !.timers = ClearTimeout(@, s.debounceTimer),
              !.actions = IF @ = <<>> THEN @ ELSE Tail(@),
              !.debounceTimer = 0]

clearActions(s) ==
    [s EXCEPT !.timers = ClearTimeout(@, s.debounceTimer),
              !.actions = <<>>,
              !.debounceTimer = 0]

setMaxActions(s, max) == IF max > 0 THEN [s EXCEPT !.maxActions = max] ELSE s

setAutoInvoke(s, enabled) == [s EXCEPT !.autoInvoke = enabled]

\* setBatchSize without its test.
setBatchSizeUnchecked(s, size) == [s EXCEPT !.batchSize = size]

setBatchSize(s, size) == IF size > 0 THEN [s EXCEPT !.batchSize = size] ELSE s

setDebounceMs(s, ms) == IF ms >= 0 THEN [s EXCEPT !.debounceMs = ms] ELSE s

\* What a caller passes to updateConfig, a Partial<OnchainActionsConfig>:
\* each field is undefined (the empty set) or holds one value.  The numbers
\* are valid ones; what the setters do with the others is SetMaxActions,
\* SetBatchSize and SetDebounceMs.  onError, the sixth field, is read by
\* updateConfig as little as onBatchReady.
Optional(values) == {{}} \cup {{v} : v \in values}
Defined(field) == field # {}
ValueOf(field) == CHOOSE v \in field : TRUE
Partial ==
    [maxActions : Optional({1, MaxSize}),
     autoInvoke : Optional(BOOLEAN),
     batchSize : Optional({1, MaxSize}),
     debounceMs : Optional(Delays),
     onBatchReady : Optional({"user"})]

\* ------------------------------------------------------- the environment
\* The strings an environment variable is given here: a number, a number no
\* setter accepts, and text; for FOC_AUTO_INVOKE two spellings of true and
\* a word that is neither true nor false.
NumberStrings == {"7", "0", "abc"}
BooleanStrings == {"TRUE", "1", "yes"}

\* Number(envValue) and isNaN(Number(envValue)) on these strings.
Number(envValue) == CASE envValue = "7" -> 7 [] envValue = "0" -> 0
isNaN(envValue) == envValue \notin {"7", "0"}

\* envValue.toLowerCase() on these strings.
toLowerCase(envValue) ==
    CASE envValue = "TRUE" -> "true" [] OTHER -> envValue

\* A variable is read as an entry: its value in process.env and its value in
\* window.env, each undefined (the empty set) or a string; a missing process
\* or window object reads the same as a missing variable.
getEnvNumber(entry, defaultValue) ==
    IF Defined(entry.process) /\ ~isNaN(ValueOf(entry.process))
    THEN Number(ValueOf(entry.process))
    ELSE IF Defined(entry.window) /\ ~isNaN(ValueOf(entry.window))
         THEN Number(ValueOf(entry.window))
         ELSE defaultValue

getEnvBoolean(entry, defaultValue) ==
    IF Defined(entry.process)
    THEN toLowerCase(ValueOf(entry.process)) = "true" \/ ValueOf(entry.process) = "1"
    ELSE IF Defined(entry.window)
         THEN toLowerCase(ValueOf(entry.window)) = "true" \/ ValueOf(entry.window) = "1"
         ELSE defaultValue

\* The environments: the four variables in process.env (node) or in
\* window.env (browser).
NodeEnvs ==
    [FOC_MAX_ACTIONS : [process : Optional(NumberStrings), window : {{}}],
     FOC_AUTO_INVOKE : [process : Optional(BooleanStrings), window : {{}}],
     FOC_BATCH_SIZE : [process : Optional(NumberStrings), window : {{}}],
     FOC_DEBOUNCE_MS : [process : Optional(NumberStrings), window : {{}}]]
BrowserEnvs ==
    [FOC_MAX_ACTIONS : [process : {{}}, window : Optional(NumberStrings)],
     FOC_AUTO_INVOKE : [process : {{}}, window : Optional(BooleanStrings)],
     FOC_BATCH_SIZE : [process : {{}}, window : Optional(NumberStrings)],
     FOC_DEBOUNCE_MS : [process : {{}}, window : Optional(NumberStrings)]]
Environments == NodeEnvs \cup BrowserEnvs

\* The environments a store is created and reset under: the three numeric
\* variables set alike.
Envs ==
    {env \in Environments : /\ env.FOC_BATCH_SIZE = env.FOC_MAX_ACTIONS
                            /\ env.FOC_DEBOUNCE_MS = env.FOC_MAX_ACTIONS}

getDefaultConfig(env) ==
    [maxActions |-> getEnvNumber(env.FOC_MAX_ACTIONS, 50),
     autoInvoke |-> getEnvBoolean(env.FOC_AUTO_INVOKE, TRUE),
     batchSize |-> getEnvNumber(env.FOC_BATCH_SIZE, 10),
     debounceMs |-> getEnvNumber(env.FOC_DEBOUNCE_MS, 1000),
     onBatchReady |-> "default"]

\* The config argument of createOnchainActionsStore: a key is absent (the
\* empty set) or present with a value that may be undefined.
Explicit(values) == Optional(Optional(values))
Configs ==
    [maxActions : Explicit({1, MaxSize}),
     autoInvoke : Explicit(BOOLEAN),
     batchSize : Explicit({1, MaxSize}),
     debounceMs : Explicit(Delays)]

\* One field of { ...defaultConfig, ...config }: a present key overrides the
\* default, with undefined too.
Spread(defaultValue, field) ==
    IF field = {} THEN {defaultValue} ELSE ValueOf(field)

\* finalConfig of createOnchainActionsStore(config), each field undefined or
\* a value.
finalConfig(config, env) ==
    [maxActions |-> Spread(getDefaultConfig(env).maxActions, config.maxActions),
     autoInvoke |-> Spread(getDefaultConfig(env).autoInvoke, config.autoInvoke),
     batchSize |-> Spread(getDefaultConfig(env).batchSize, config.batchSize),
     debounceMs |-> Spread(getDefaultConfig(env).debounceMs, config.debounceMs)]

\* updateConfig that also cancels the armed debounce timer.
updateConfigCancelsTimer(s, config) ==
    LET s1 == IF Defined(config.maxActions)
              THEN setMaxActions(s, ValueOf(config.maxActions)) ELSE s
        s2 == IF Defined(config.autoInvoke)
              THEN setAutoInvoke(s1, ValueOf(config.autoInvoke)) ELSE s1
        s3 == IF Defined(config.batchSize)
              THEN setBatchSize(s2, ValueOf(config.batchSize)) ELSE s2
        s4 == IF Defined(config.debounceMs)
              THEN setDebounceMs(s3, ValueOf(config.debounceMs)) ELSE s3
    IN  [s4 EXCEPT !.timers = ClearTimeout(@, s.debounceTimer), !.debounceTimer = 0]

\* updateConfig: the setter of every defined field among maxActions,
\* autoInvoke, batchSize and debounceMs, in this order.
updateConfig(s, config) ==
    LET s1 == IF Defined(config.maxActions)
              THEN setMaxActions(s, ValueOf(config.maxActions)) ELSE s
        s2 == IF Defined(config.autoInvoke)
              THEN setAutoInvoke(s1, ValueOf(config.autoInvoke)) ELSE s1
        s3 == IF Defined(config.batchSize)
              THEN setBatchSize(s2, ValueOf(config.batchSize)) ELSE s2
    IN  IF Defined(config.debounceMs)
        THEN setDebounceMs(s3, ValueOf(config.debounceMs)) ELSE s3

\* resetToDefaults of useOnchainActionsConfig: updateConfig(getDefaultConfig()).
resetToDefaults(s, env) ==
    updateConfig(s, [maxActions |-> {getDefaultConfig(env).maxActions},
                     autoInvoke |-> {getDefaultConfig(env).autoInvoke},
                     batchSize |-> {getDefaultConfig(env).batchSize},
                     debounceMs |-> {getDefaultConfig(env).debounceMs},
                     onBatchReady |-> {getDefaultConfig(env).onBatchReady}])

\* onInvokeActions handing the calls in flight over to the new executor.
onInvokeActionsRetargets(s, e) ==
    [s EXCEPT !.invokeActions = e,
              !.inflight = [i \in 1..Len(@) |-> [@[i] EXCEPT !.exec = e]]]

onInvokeActions(s, e) == [s EXCEPT !.invokeActions = e]

\* The callback addAction hands to setTimeout.
timerCallback(s, h, t) ==
    LET s1 == [s EXCEPT !.timers = @ \ {h}]
    IN  IF Len(s1.actions) > 0 THEN forceBatchExecution(s1, t) ELSE s1

Remove(q, i) == SubSeq(q, 1, i - 1) \o SubSeq(q, i + 1, Len(q))

\* The success continuation without the finally block.
resolvedKeepsPending(s, i) ==
    [s EXCEPT !.inflight = Remove(@, i)]

\* The continuation of forceBatchExecution when the promise resolved.
resolved(s, i) ==
    [s EXCEPT !.inflight = Remove(@, i), !.pendingInvoke = FALSE]

\* The continuation when the promise rejected, in the module-level store.
rejectedModule(s, i) ==
    [s EXCEPT !.actions = s.inflight[i].batch \o @,
              !.inflight = Remove(@, i),
              !.pendingInvoke = FALSE]

\* The continuation in a factory store that leaves a batch it handed to
\* onError out of the queue.
rejectedFactoryDropsBatch(s, i, cb) ==
    LET b == s.inflight[i].batch
        s1 == IF cb = "undefined" THEN [s EXCEPT !.actions = b \o @]
              ELSE [s EXCEPT !.errorCalls = Append(@, b), !.threw = (cb = "throws")]
    IN  [s1 EXCEPT !.inflight = Remove(@, i), !.pendingInvoke = FALSE]

\* The continuation when the promise rejected, in a factory store.  `cb` is
\* what finalConfig.onError does: "undefined" (not called), "returns" or
\* "throws"; an exception leaves the catch block before the re-queue, and
\* the finally block still runs.
rejectedFactory(s, i, cb) ==
    LET b == s.inflight[i].batch
        s1 == IF cb = "undefined" THEN s
              ELSE [s EXCEPT !.errorCalls = Append(@, b), !.threw = (cb = "throws")]
        s2 == IF cb = "throws" THEN s1 ELSE [s1 EXCEPT !.actions = b \o @]
    IN  [s2 EXCEPT !.inflight = Remove(@, i), !.pendingInvoke = FALSE]

\* ------------------------------------------------------------ transitions
\* set(): the new value of the store and of its environment, from the value a
\* handler returned.
Commit(s) ==
    /\ actions' = s.actions
    /\ maxActions' = s.maxActions
    /\ autoInvoke' = s.autoInvoke
    /\ batchSize' = s.batchSize
    /\ debounceMs' = s.debounceMs
    /\ pendingInvoke' = s.pendingInvoke
    /\ lastInvokeTime' = s.lastInvokeTime
    /\ debounceTimer' = s.debounceTimer
    /\ invokeActions' = s.invokeActions
    /\ timers' = s.timers
    /\ inflight' = s.inflight
    /\ nextId' = s.nextId
    /\ UNCHANGED <<variant, onError>>

\* What the handler named op did, and the run of addAction calls after it.
Observe(s, op, r) ==
    /\ step' = [op |-> op, submitted |-> s.submitted, evicted |-> s.evicted,
                errorCalls |-> s.errorCalls, threw |-> s.threw]
    /\ run' = r

\* The store after create(): the queue is empty, nothing is pending, and the
\* configuration is what getDefaultConfig and the explicit config resolve to,
\* taken to be valid (maxActions > 0, batchSize > 0, debounceMs >= 0).
\* The module-level store starts without an executor; a factory store starts
\* with finalConfig.onBatchReady (the default `async () => {}`, the caller's,
\* or undefined when the caller passed undefined).
Init ==
    /\ variant \in {"module", "factory"}
    /\ onError \in {"undefined", "defined"}
    /\ variant = "module" => onError = "undefined"
    /\ actions = <<>>
    /\ maxActions \in Sizes
    /\ autoInvoke \in BOOLEAN
    /\ batchSize \in Sizes
    /\ debounceMs \in Delays
    /\ pendingInvoke = FALSE
    /\ lastInvokeTime = 0
    /\ debounceTimer = 0
    /\ invokeActions \in Executors \cup {"none"}
    /\ variant = "module" => invokeActions = "none"
    /\ timers = {}
    /\ inflight = <<>>
    /\ nextId = 1
    /\ step = [op |-> "create", submitted |-> <<>>, evicted |-> <<>>,
               errorCalls |-> <<>>, threw |-> FALSE]
    /\ run = NoRun

\* The run of addAction calls: it begins with an addAction on an empty queue
\* and ends with the first handler that is not addAction.
RunAfterAdd(s) ==
    IF actions = <<>>
    THEN [first |-> nextId, pending0 |-> pendingInvoke, submits |-> s.submitted]
    ELSE IF run.first # 0 THEN [run EXCEPT !.submits = @ \o s.submitted]
         ELSE NoRun

AddAction ==
    /\ nextId <= MaxActionId
    /\ \E t \in DateNow :
        LET s == addAction(Cur, nextId, t)
        IN  Commit(s) /\ Observe(s, "addAction", RunAfterAdd(s))

AddActions ==
    \E n \in 0..((MaxActionId + 1) - nextId) : \E t \in DateNow :
        LET s == addActions(Cur, n, t)
        IN  /\ n # 1
            /\ Commit(s)
            /\ Observe(s, "addActions", NoRun)

ClearActions ==
    /\ Commit(clearActions(Cur))
    /\ Observe(clearActions(Cur), "clearActions", NoRun)

\* The configuration setters, called directly or by updateConfig, which calls
\* the setter of every field that is defined; their inputs need not be valid.
SetMaxActions ==
    \E max \in 0..MaxSize :
        /\ Commit(setMaxActions(Cur, max))
        /\ Observe(Cur, "setConfig", NoRun)

SetAutoInvoke ==
    \E enabled \in BOOLEAN :
        /\ Commit(setAutoInvoke(Cur, enabled))
        /\ Observe(Cur, "setConfig", NoRun)

SetBatchSize ==
    \E size \in 0..MaxSize :
        /\ Commit(setBatchSize(Cur, size))
        /\ Observe(Cur, "setConfig", NoRun)

SetDebounceMs ==
    \E ms \in Delays \cup {-1} :
        /\ Commit(setDebounceMs(Cur, ms))
        /\ Observe(Cur, "setConfig", NoRun)

\* onInvokeActions / setExecutor.
OnInvokeActions ==
    /\ Commit(onInvokeActions(Cur, "user"))
    /\ Observe(Cur, "onInvokeActions", NoRun)

\* executeNow / forceBatchExecution called by the application.
ForceBatchExecution ==
    \E t \in DateNow :
        LET s == forceBatchExecution(Cur, t)
        IN  /\ Commit(s)
            /\ Observe(s, "forceBatchExecution", NoRun)

TimerFires ==
    \E h \in timers : \E t \in DateNow :
        LET s == timerCallback(Cur, h, t)
        IN  /\ Commit(s)
            /\ Observe(s, "timer", NoRun)

\* The executor's promise resolves.
Resolved ==
    \E i \in 1..Len(inflight) :
        /\ Commit(resolved(Cur, i))
        /\ Observe(Cur, "resolved", NoRun)

\* The executor's promise rejects; the default executor `async () => {}`
\* never does.  What onError does is the callback's choice at each call.
Rejected ==
    \E i \in 1..Len(inflight) :
        /\ inflight[i].exec # "default"
        /\ \/ /\ variant = "module"
              /\ Commit(rejectedModule(Cur, i))
              /\ Observe(Cur, "rejected", NoRun)
           \/ /\ variant = "factory"
              /\ \E cb \in {"undefined", "returns", "throws"} :
                    LET s == rejectedFactory(Cur, i, cb)
                    IN  /\ (cb = "undefined") <=> (onError = "undefined")
                        /\ Commit(s)
                        /\ Observe(s, "rejected", NoRun)

Next ==
    \/ AddAction
    \/ AddActions
    \/ ClearActions
    \/ SetMaxActions
    \/ SetAutoInvoke
    \/ SetBatchSize
    \/ SetDebounceMs
    \/ OnInvokeActions
    \/ ForceBatchExecution
    \/ TimerFires
    \/ Resolved
    \/ Rejected

Spec == Init /\ [][Next]_vars

\* updateConfig(config).
UpdateConfig ==
    \E config \in Partial :
        /\ Commit(updateConfig(Cur, config))
        /\ Observe(Cur, "updateConfig", NoRun)

\* The store configured through updateConfig while actions are added and
\* executor calls resolve.
NextConfig ==
    \/ AddAction
    \/ UpdateConfig
    \/ Resolved

SpecConfig == Init /\ [][NextConfig]_vars

\* The store after create() under an environment: the module-level store
\* takes getDefaultConfig(), a factory store finalConfig, here with every
\* field defined.
InitDefaults ==
    /\ \E env \in Envs : \E config \in Configs :
        LET final == finalConfig(config, env)
        IN  /\ variant \in {"module", "factory"}
            /\ variant = "module" => config = [maxActions |-> {}, autoInvoke |-> {},
                                               batchSize |-> {}, debounceMs |-> {}]
            /\ \A f \in DOMAIN final : Defined(final[f])
            /\ maxActions = ValueOf(final.maxActions)
            /\ autoInvoke = ValueOf(final.autoInvoke)
            /\ batchSize = ValueOf(final.batchSize)
            /\ debounceMs = ValueOf(final.debounceMs)
    /\ onError = "undefined"
    /\ actions = <<>>
    /\ pendingInvoke = FALSE
    /\ lastInvokeTime = 0
    /\ debounceTimer = 0
    /\ invokeActions = IF variant = "module" THEN "none" ELSE "default"
    /\ timers = {}
    /\ inflight = <<>>
    /\ nextId = 1
    /\ step = [op |-> "create", submitted |-> <<>>, evicted |-> <<>>,
               errorCalls |-> <<>>, threw |-> FALSE]
    /\ run = NoRun

\* resetToDefaults, which useOnchainActionsConfig binds to the module-level
\* store, under the environment of the moment.
ResetToDefaults ==
    /\ variant = "module"
    /\ \E env \in Envs :
        /\ Commit(resetToDefaults(Cur, env))
        /\ Observe(Cur, "resetToDefaults", NoRun)

\* The store created under an environment and reset under another.
NextDefaults ==
    \/ AddAction
    \/ ResetToDefaults
    \/ OnInvokeActions
    \/ Resolved

SpecDefaults == InitDefaults /\ [][NextDefaults]_vars

\* The store left to itself between addAction calls: the event loop runs
\* every due timer callback, and every executor call resolves.
NextLive ==
    \/ AddAction
    \/ TimerFires
    \/ Resolved

SpecLive ==
    /\ Init
    /\ [][NextLive]_vars
    /\ WF_vars(TimerFires)
    /\ WF_vars(Resolved)

\* ------------------------------------------------------------- properties
\* The actions of the current run of addAction calls, in the order added.
RunLen == nextId - run.first
RunAdds == [k \in 1..RunLen |-> (run.first + k) - 1]

\* A step is the failure continuation of the in-flight call i.
RejectedCall(i) ==
    /\ step'.op = "rejected"
    /\ i \in 1..Len(inflight)
    /\ inflight' = Remove(inflight, i)

\* C1: after every operation and internal step the queue is no longer than
\* maxActions.
QueueWithinMaxActions == Len(actions) <= maxActions

\* C2: no action of a batch whose executor call has not settled is in the
\* queue.
InFlightBatchNotInQueue ==
    \A i \in 1..Len(inflight) :
        \A j \in 1..Len(inflight[i].batch) :
            \A k \in 1..Len(actions) : actions[k] # inflight[i].batch[j]

\* C3: at most one executor call is unsettled at any time, and a handler that
\* calls the executor leaves exactly its own call unsettled.
AtMostOneInFlight ==
    /\ Len(inflight) <= 1
    /\ Len(step.submitted) <= Len(inflight)
    /\ step.submitted # <<>> => inflight[1].batch = step.submitted[1]

\* C3 witness: executeNow on a non-empty queue with an executor installed was
\* turned away because a call is in flight.
FlushTurnedAwayWhileInFlight ==
    /\ step.op = "forceBatchExecution"
    /\ step.submitted = <<>>
    /\ Len(inflight) = 1
    /\ pendingInvoke
    /\ actions # <<>>
    /\ invokeActions # "none"

\* C4: while autoInvoke is false only forceBatchExecution called by the
\* application starts an executor call; addAction, addActions and a firing
\* timer do not.
ManualModeSubmitsOnlyOnRequest ==
    (~autoInvoke /\ step.submitted # <<>>) => step.op = "forceBatchExecution"

\* C5 as stated: with autoInvoke false, after a run of at most batchSize
\* addAction calls on an empty queue the queue is the added actions in order
\* and the run called the executor never.
ManualAddsAreKept ==
    (run.first # 0 /\ ~autoInvoke /\ RunLen <= batchSize)
        => (actions = RunAdds /\ run.submits = <<>>)

\* C5 amended: the same for a run of at most batchSize and at most maxActions
\* addAction calls.
ManualAddsAreKeptUpToMaxActions ==
    (run.first # 0 /\ ~autoInvoke /\ RunLen <= batchSize /\ RunLen <= maxActions)
        => (actions = RunAdds /\ run.submits = <<>>)

\* C5 witness: a run of batchSize >= 2 addAction calls with autoInvoke false,
\* an executor installed and nothing in flight.
ManualRunOfBatchSize ==
    /\ run.first # 0
    /\ ~autoInvoke
    /\ RunLen = batchSize
    /\ RunLen >= 2
    /\ RunLen <= maxActions
    /\ invokeActions # "none"
    /\ ~pendingInvoke

\* C6: with autoInvoke true, an executor installed and nothing in flight, a
\* run of exactly batchSize addAction calls on an empty queue calls the
\* executor once, with all the added actions in order, and leaves the queue
\* empty.
SizeTriggerSubmitsRunOnce ==
    (/\ run.first # 0
     /\ autoInvoke
     /\ invokeActions # "none"
     /\ ~run.pending0
     /\ RunLen = batchSize)
        => (run.submits = <<RunAdds>> /\ actions = <<>>)

RequeueLaw ==
    [][\A i \in 1..Len(inflight) :
        RejectedCall(i) => actions' = inflight[i].batch \o actions]_vars

\* C9: every rejected executor call for batch B makes one onError call, with
\* B, in the module-level store and in a factory store that has an onError.
OnErrorOncePerRejection ==
    [][\A i \in 1..Len(inflight) :
        (RejectedCall(i) /\ (variant = "factory" => onError = "defined"))
            => step'.errorCalls = <<inflight[i].batch>>]_vars

\* C10: whatever the onError call does, returning or throwing, the rejected
\* batch B is put in front of the queue and pendingInvoke is false.
OnErrorDoesNotAffectOutcome ==
    [][\A i \in 1..Len(inflight) :
        (RejectedCall(i) /\ step'.errorCalls # <<>>)
            => /\ actions' = inflight[i].batch \o actions
               /\ pendingInvoke' = FALSE
               /\ inflight' = <<>>]_vars

\* C11: pendingInvoke is true exactly while an executor call is unsettled;
\* after the call settled, by resolving or rejecting, it is false, and
\* forceBatchExecution on a non-empty queue with an executor installed then
\* calls the executor with the queue.
PendingExactlyWhileInFlight ==
    /\ pendingInvoke <=> inflight # <<>>
    /\ step.op \in {"resolved", "rejected"} => ~pendingInvoke
    /\ (~pendingInvoke /\ actions # <<>> /\ invokeActions # "none")
            => \A t \in DateNow :
                    forceBatchExecution(Cur, t).submitted = <<actions>>

\* C11 witness: the executor call rejected, onError threw, and the store is
\* idle with nothing in flight.
IdleAfterThrowingOnError ==
    /\ step.op = "rejected"
    /\ step.threw
    /\ ~pendingInvoke
    /\ inflight = <<>>

\* C12: forceBatchExecution on an empty queue or while a call is in flight
\* calls the executor never and leaves queue, pendingInvoke, lastInvokeTime,
\* the armed timer, the configuration and the calls in flight as they are.
ExecuteNowBlockedIsNoOp ==
    (actions = <<>> \/ pendingInvoke)
        => \A t \in DateNow : forceBatchExecution(Cur, t) = Cur

\* C12 witness: forceBatchExecution returned while a call is in flight, with
\* the queue not empty and its debounce timer armed.
ExecuteNowBlockedWithTimerArmed ==
    /\ step.op = "forceBatchExecution"
    /\ step.submitted = <<>>
    /\ pendingInvoke
    /\ actions # <<>>
    /\ debounceTimer \in timers

\* C13: while no executor was supplied (the module-level store before
\* onInvokeActions, a factory store created without onBatchReady) no handler
\* calls an executor and pendingInvoke stays false.
NoExecutorSuppliedNoFlush ==
    invokeActions # "user"
        => (step.submitted = <<>> /\ ~pendingInvoke /\ inflight = <<>>)

\* C14: a handler that passes the guard of forceBatchExecution (addAction on
\* the size trigger, a firing timer, forceBatchExecution itself) calls the
\* executor with the whole queue of that moment in order, leaves the queue
\* empty and no debounce timer armed.
FlushSubmitsWholeQueue ==
    [][(step'.op \in {"addAction", "timer", "forceBatchExecution"}
            /\ step'.submitted # <<>>)
        => /\ step'.submitted =
                <<IF step'.op = "addAction" THEN Append(actions, nextId) ELSE actions>>
           /\ actions' = <<>>
           /\ timers' = {}
           /\ debounceTimer' = 0]_vars

\* C15: clearActions leaves the queue empty and no timer armed, and leaves
\* pendingInvoke, the calls in flight, the executor and the configuration
\* as they are.
ClearEmptiesQueueAndCancelsTimer ==
    clearActions(Cur) =
        [Cur EXCEPT !.actions = <<>>, !.timers = {}, !.debounceTimer = 0]

\* C15 witness: clearActions returned while a call is in flight.
ClearedWhileInFlight ==
    /\ step.op = "clearActions"
    /\ actions = <<>>
    /\ timers = {}
    /\ pendingInvoke
    /\ inflight # <<>>

\* C16: clearActions twice in a row gives the state clearActions gives once,
\* and on an empty queue it gives an empty queue with no timer armed.
ClearIsIdempotent ==
    /\ clearActions(clearActions(Cur)) = clearActions(Cur)
    /\ actions = <<>>
            => (clearActions(Cur).actions = <<>> /\ clearActions(Cur).timers = {})

\* C16 witness: clearActions returned on a store that never held an action.
ClearedEmptyQueue ==
    /\ step.op = "clearActions"
    /\ nextId = 1
    /\ actions = <<>>
    /\ timers = {}

\* C17: when the call for batch B settles right after a clearActions issued
\* while it was in flight, pendingInvoke becomes false, and if the call
\* rejected the queue becomes B followed by what it held.
ClearDoesNotCancelInFlight ==
    [][\A i \in 1..Len(inflight) :
        (step.op = "clearActions" /\ inflight' = Remove(inflight, i)
                /\ step'.op \in {"resolved", "rejected"})
            => /\ pendingInvoke' = FALSE
               /\ step'.op = "rejected" => actions' = inflight[i].batch \o actions]_vars

\* addAction called n times in a row, each call on the state the previous
\* one left.
RECURSIVE AddedOneByOne(_, _, _)
AddedOneByOne(s, n, t) ==
    IF n = 0 THEN s
    ELSE LET before == AddedOneByOne(s, n - 1, t)
         IN  addAction(before, before.nextId, t)

\* C18: addActions gives the state and the executor calls that as many
\* addAction calls in the same order give.
AddActionsIsSequentialAdds ==
    \A n \in 0..((MaxActionId + 1) - nextId) : \A t \in DateNow :
        addActions(Cur, n, t) = AddedOneByOne(Cur, n, t)

\* C18 witness: addActions called the executor with the first action alone
\* and queued the ones after it.
AddActionsFlushedAfterFirst ==
    /\ step.op = "addActions"
    /\ step.submitted = <<<<nextId - 2>>>>
    /\ actions = <<nextId - 1>>

\* The value of a field after updateConfig when a defined field is taken.
Provided(field, old) == IF Defined(field) THEN ValueOf(field) ELSE old

SetExecutorLeavesInFlightCall ==
    [][/\ step'.op = "onInvokeActions"
            => /\ invokeActions' = "user"
               /\ UNCHANGED <<actions, pendingInvoke, inflight, timers, debounceTimer,
                              lastInvokeTime, maxActions, autoInvoke, batchSize,
                              debounceMs>>
       /\ step'.submitted # <<>>
            => inflight'[Len(inflight')].exec = invokeActions
       /\ step'.op = "rejected"
            => \E i \in 1..Len(inflight) :
                    /\ inflight' = Remove(inflight, i)
                    /\ inflight[i].exec = "user"]_vars

\* C20 witness: onInvokeActions replaced the executor while a call of the
\* executor installed before is in flight.
ExecutorReplacedWhileInFlight ==
    /\ step.op = "onInvokeActions"
    /\ invokeActions = "user"
    /\ pendingInvoke
    /\ Len(inflight) = 1
    /\ inflight[1].exec = "default"

\* C21: at most one debounce timer is armed, and it is the one whose handle
\* the store holds: a timer that a later addAction superseded was cancelled
\* and cannot fire.
OneDebounceTimer ==
    /\ Cardinality(timers) <= 1
    /\ timers \subseteq {debounceTimer}

\* C21 witness: the second of two addAction calls in a row took the debounce
\* branch while the timer of the first was armed, and one timer is armed.
TimerRearmedBySecondAdd ==
    /\ step.op = "addAction"
    /\ run.first # 0
    /\ RunLen = 2
    /\ Len(actions) = 2
    /\ autoInvoke
    /\ timers = {debounceTimer}

\* C22: with autoInvoke on and debounceMs > 0 only a timer that no addAction
\* followed can fire: no timer that was armed before an addAction is armed
\* after it.
AddLeavesNoOlderTimer ==
    [][(step'.op = "addAction" /\ autoInvoke /\ debounceMs > 0)
        => timers' \cap timers = {}]_vars

\* C24: after an addAction with autoInvoke on that leaves the queue at least
\* batchSize long no debounce timer is armed.
NoTimerAtBatchSize ==
    (step.op = "addAction" /\ autoInvoke /\ Len(actions) >= batchSize)
        => timers = {}

\* Action a is in the queue; it is in a batch whose call has not settled.
InQueue(a) == \E k \in 1..Len(actions) : actions[k] = a
InFlight(a) ==
    \E i \in 1..Len(inflight) :
        \E k \in 1..Len(inflight[i].batch) : inflight[i].batch[k] = a

\* C23: with autoInvoke on, debounceMs > 0 and an executor installed, timers
\* that fire and calls that resolve, every queued action is eventually handed
\* to the executor or evicted, without another addAction or
\* forceBatchExecution call.
QueuedActionsAreEventuallySubmitted ==
    \A a \in 1..MaxActionId :
        (autoInvoke /\ debounceMs > 0 /\ invokeActions # "none" /\ InQueue(a))
            ~> (InFlight(a) \/ ~InQueue(a))

\* Actions are named in the order of the addAction calls, so a batch is in
\* the order added, each action once, when its names increase.
InAddOrder(batch) ==
    \A k \in 1..(Len(batch) - 1) : batch[k] < batch[k + 1]

\* C25: every batch handed to the executor holds its actions in the order
\* in which they were added, and none of them twice.
BatchesInAddOrder ==
    /\ \A i \in 1..Len(inflight) : InAddOrder(inflight[i].batch)
    /\ \A i \in 1..Len(step.submitted) : InAddOrder(step.submitted[i])

\* The store as the step under way leaves it.
CurNext ==
    [actions |-> actions', maxActions |-> maxActions', autoInvoke |-> autoInvoke',
     batchSize |-> batchSize', debounceMs |-> debounceMs',
     pendingInvoke |-> pendingInvoke', lastInvokeTime |-> lastInvokeTime',
     debounceTimer |-> debounceTimer', invokeActions |-> invokeActions',
     timers |-> timers', inflight |-> inflight', nextId |-> nextId',
     submitted |-> <<>>, evicted |-> <<>>, errorCalls |-> <<>>, threw |-> FALSE]

\* C26: after the call for batch B rejected, whatever number of actions the
\* application adds next, the first batch handed to the executor, by one of
\* these adds or by a forceBatchExecution after them, is B followed by what
\* the queue held and by the actions added until then.
RetryWithNextFlush ==
    [][\A i \in 1..Len(inflight) :
        RejectedCall(i) =>
            \A n \in 0..((MaxActionId + 1) - nextId) : \A t \in Times :
                LET later == forceBatchExecution(addActions(CurNext, n, t), t)
                    all == (inflight[i].batch \o actions)
                                \o [k \in 1..n |-> (nextId + k) - 1]
                IN  later.submitted # <<>>
                        => /\ Len(later.submitted[1]) >= Len(inflight[i].batch)
                           /\ later.submitted[1]
                                = SubSeq(all, 1, Len(later.submitted[1]))]_vars

\* C27: addAction, addActions and clearActions leave every call in flight
\* with the batch it was started with; a handler that starts a call hands
\* over the batch that is then in flight; and when the call rejects, that
\* batch is what onError is called with and what is put back in front of the
\* queue (nothing is put back when onError threw).
InFlightBatchIsFixed ==
    [][/\ step'.op \in {"addAction", "addActions", "clearActions"}
            => /\ Len(inflight') >= Len(inflight)
               /\ \A i \in 1..Len(inflight) : inflight'[i] = inflight[i]
       /\ Len(step'.submitted) = 1
            => inflight'[Len(inflight')].batch = step'.submitted[1]
       /\ \A i \in 1..Len(inflight) :
            RejectedCall(i)
                => /\ \A k \in 1..Len(step'.errorCalls) :
                            step'.errorCalls[k] = inflight[i].batch
                   /\ \/ actions' = inflight[i].batch \o actions
                      \/ step'.threw /\ actions' = actions]_vars

\* C27 witness: addAction returned while a call is in flight, with the added
\* action in the queue and no new call.
AddedWhileInFlight ==
    /\ step.op = "addAction"
    /\ step.submitted = <<>>
    /\ pendingInvoke
    /\ Len(inflight) = 1
    /\ actions # <<>>
    /\ actions[Len(actions)] = nextId - 1

\* The batches of the calls in flight, one after the other.
RECURSIVE InFlightActions(_)
InFlightActions(calls) ==
    IF calls = <<>> THEN <<>>
    ELSE Head(calls).batch \o InFlightActions(Tail(calls))

\* C30: every action that was added is in at most one place of the store:
\* once in the queue or once in a batch in flight, never both, and else it
\* was handed over successfully, evicted or cleared.
ActionsAreConserved ==
    \A a \in 1..(nextId - 1) :
        LET held == actions \o InFlightActions(inflight)
        IN  Cardinality({k \in 1..Len(held) : held[k] = a}) <= 1

\* An explicit configuration value is given: the key is present and defined.
Given(field) == Defined(field) /\ Defined(ValueOf(field))

\* The strings of a variable that are set and parse as one of parseable.
SetAndParseable(entry, parseable) ==
    {envValue \in entry.process \cup entry.window : envValue \in parseable}

\* The value the order explicit, environment, default gives a numeric
\* setting, the numerals being "7" and "0".
NumberByPrecedence(field, entry, defaultValue) ==
    IF Given(field) THEN ValueOf(field)
    ELSE IF SetAndParseable(entry, {"7", "0"}) # {}
         THEN {IF "7" \in SetAndParseable(entry, {"7", "0"}) THEN 7 ELSE 0}
         ELSE {defaultValue}

\* The same for autoInvoke, "TRUE" and "1" reading true and "yes" nothing.
BooleanByPrecedence(field, entry, defaultValue) ==
    IF Given(field) THEN ValueOf(field)
    ELSE IF SetAndParseable(entry, {"TRUE", "1"}) # {}
         THEN {TRUE}
         ELSE {defaultValue}

\* C28: a store is created with each of maxActions, autoInvoke, batchSize and
\* debounceMs at the explicit configuration value when one is given, else at
\* the environment value when one is set and parseable, else at the
\* hardcoded default 50, true, 10, 1000.
ConfigResolvedByPrecedence ==
    step.op = "create" => \A env \in Environments : \A config \in Configs :
        /\ finalConfig(config, env).maxActions
             = NumberByPrecedence(config.maxActions, env.FOC_MAX_ACTIONS, 50)
        /\ finalConfig(config, env).autoInvoke
             = BooleanByPrecedence(config.autoInvoke, env.FOC_AUTO_INVOKE, TRUE)
        /\ finalConfig(config, env).batchSize
             = NumberByPrecedence(config.batchSize, env.FOC_BATCH_SIZE, 10)
        /\ finalConfig(config, env).debounceMs
             = NumberByPrecedence(config.debounceMs, env.FOC_DEBOUNCE_MS, 1000)

\* C29: resetToDefaults leaves maxActions, autoInvoke, batchSize and
\* debounceMs at the values getDefaultConfig resolves from the environment,
\* whatever they were before, and the queue, the executor, pendingInvoke and
\* everything else as they were.
ResetRestoresResolvedDefaults ==
    variant = "module" => \A env \in Environments :
        resetToDefaults(Cur, env)
          = [Cur EXCEPT !.maxActions = getDefaultConfig(env).maxActions,
                        !.autoInvoke = getDefaultConfig(env).autoInvoke,
                        !.batchSize = getDefaultConfig(env).batchSize,
                        !.debounceMs = getDefaultConfig(env).debounceMs]

\* q is what is left of p after actions were removed from its front.
IsSuffix(q, p) ==
    /\ Len(q) <= Len(p)
    /\ q = SubSeq(p, (Len(p) - Len(q)) + 1, Len(p))

\* C31: the overflow step of addAction works on the queue as the triggers
\* left it and only removes from its front: after an addAction that flushed
\* the queue is empty and nothing was evicted, and after one that did not
\* the queue is a suffix of the old queue with the new action appended.
OverflowAfterTriggerEvaluation ==
    [][step'.op = "addAction"
        => IF step'.submitted # <<>>
           THEN actions' = <<>> /\ step'.evicted = <<>>
           ELSE IsSuffix(actions', Append(actions, nextId))]_vars

\* The queue is made longer than maxActions only by a re-queue or by
\* lowering maxActions, and stays so only while nothing is added.
ExcessOnlyBy(added) ==
    Len(actions') > maxActions'
        => \/ step'.op = "rejected"
           \/ step'.op = "setConfig" /\ maxActions' < maxActions
           \/ Len(actions) > maxActions /\ ~added

\* C32 as stated: the queue is longer than maxActions only between a re-queue
\* or a lowering of maxActions and the next addAction or addActions call,
\* and after every addAction and every addActions call, here of up to
\* MaxActionId actions, it is at most maxActions long.
QueueWithinMaxActionsAfterEveryAdd ==
    /\ [](\A t \in DateNow : \A n \in 0..MaxActionId :
            Len(addActions(Cur, n, t).actions) <= maxActions)
    /\ [][ExcessOnlyBy(step'.op \in {"addAction", "addActions"})]_vars

\* C32 amended: the same for every call that adds at least one action.
QueueWithinMaxActionsAfterAdding ==
    /\ [](\A t \in DateNow : \A n \in 1..MaxActionId :
            Len(addActions(Cur, n, t).actions) <= maxActions)
    /\ [][ExcessOnlyBy(nextId' # nextId)]_vars

\* C32 witness: a re-queue left the queue longer than maxActions, and the
\* next addAction brings it back to maxActions.
RequeuedBeyondMaxActions ==
    /\ step.op = "rejected"
    /\ Len(actions) > maxActions
    /\ \A t \in DateNow : Len(addAction(Cur, nextId, t).actions) = maxActions

\* The handler's result s, reached at clock reading t, holds t as
\* lastInvokeTime if the handler called the executor, and the old value if not.
StampedBySubmit(s, t) ==
    s.lastInvokeTime = IF s.submitted # <<>> THEN t ELSE lastInvokeTime

NoEmptyBatchSubmitted ==
    /\ \A k \in 1..Len(step.submitted) : step.submitted[k] # <<>>
    /\ \A i \in 1..Len(inflight) : inflight[i].batch # <<>>

\* C34 witness: the application asked for a flush of an empty queue, with an
\* executor installed and nothing in flight, and no call was made.
ExecuteNowOnEmptyQueue ==
    /\ step.op = "forceBatchExecution"
    /\ step.submitted = <<>>
    /\ actions = <<>>
    /\ inflight = <<>>
    /\ ~pendingInvoke
    /\ invokeActions # "none"

\* C35: the setters keep the configuration valid.  setMaxActions and
\* setBatchSize with a value that is not positive and setDebounceMs with a
\* negative one, called directly or by updateConfig, leave the whole store
\* as it is, and in every state reached from a store with maxActions > 0,
\* batchSize > 0 and debounceMs >= 0 these three still hold.
SettersKeepConfigValid ==
    /\ maxActions > 0
    /\ batchSize > 0
    /\ debounceMs >= 0
    /\ \A bad \in {-1, 0} :
        /\ setMaxActions(Cur, bad) = Cur
        /\ setBatchSize(Cur, bad) = Cur
        /\ setDebounceMs(Cur, bad - 1) = Cur
        /\ updateConfig(Cur, [maxActions |-> {bad}, autoInvoke |-> {},
                              batchSize |-> {bad}, debounceMs |-> {bad - 1},
                              onBatchReady |-> {}]) = Cur

\* C35 witness: a setter was called, and the configuration stands at the
\* smallest valid values while actions are queued and a call is in flight.
SetterCalledAtSmallestValues ==
    /\ step.op = "setConfig"
    /\ maxActions = 1
    /\ batchSize = 1
    /\ debounceMs = 0
    /\ actions # <<>>
    /\ pendingInvoke

\* C36: the module-level store with an executor installed and a factory
\* store with the same settings, the same executor and an onError that
\* returns go through the same queues, pendingInvoke values, timers and
\* executor calls.  The handlers of the two are the same but for the failure
\* continuation: from every state, for every call in flight, the factory's
\* continuation, with no onError or with one that returns, leaves the store
\* the module-level continuation leaves, and calls the executor as little.
FactoryStoreActsAsModuleStore ==
    \A i \in 1..Len(inflight) : \A cb \in {"undefined", "returns"} :
        /\ [rejectedFactory(Cur, i, cb) EXCEPT !.errorCalls = <<>>]
             = rejectedModule(Cur, i)
        /\ rejectedFactory(Cur, i, cb).errorCalls
             = IF cb = "returns" THEN <<inflight[i].batch>> ELSE <<>>

\* C36 witness: in a factory store a call was rejected, onError was called
\* and returned, and the batch stands in front of a later action.
FactoryRequeuedAfterOnError ==
    /\ variant = "factory"
    /\ step.op = "rejected"
    /\ step.errorCalls # <<>>
    /\ ~step.threw
    /\ Len(actions) >= 2
    /\ actions[1] < actions[Len(actions)]

\* C37: the stored handle reflects the timer: debounceTimer is defined
\* exactly when a debounce timer is armed, one that has neither fired nor
\* been cancelled, and it is the handle of that timer.
TimerHandleReflectsTimer ==
    /\ (debounceTimer # 0) <=> (timers # {})
    /\ debounceTimer # 0 => debounceTimer \in timers

====
